---- MODULE Spec2Model ----
(***************************************************************************)
(* A model of the CrewAI Product Intelligence System: the three analysis   *)
(* tools of tools.py (seasonality, trend, classification), the task and    *)
(* crew wiring of tasks.py / agents.py and the CrewAIProductAnalyzer of    *)
(* main.py (analyze_product, analyze_multiple_products, self.results).     *)
(*                                                                         *)
(* Numbers.  The tools compute in IEEE floating point.  The model computes *)
(* in exact rationals extended with +inf, -inf and NaN, written <<n, d>>   *)
(* with d >= 0: d > 0 is the rational n/d in lowest terms, <<1, 0>> is     *)
(* +inf, <<-1, 0>> is -inf and <<0, 0>> is NaN.  Rounding error of the     *)
(* floating point operations is not modelled; the special values are.      *)
(***************************************************************************)
EXTENDS Integers, Sequences, FiniteSets, TLC

(***************************************************************************)
(* Extended rational arithmetic (the float operations the tools use).      *)
(***************************************************************************)
Sign(n) == IF n > 0 THEN 1 ELSE IF n < 0 THEN -1 ELSE 0

AbsInt(n) == IF n < 0 THEN -n ELSE n

RECURSIVE GCD(_, _)
GCD(a, b) == IF b = 0 THEN a ELSE GCD(b, a % b)

Norm(n, d) ==
    IF d = 0 THEN <<Sign(n), 0>>
    ELSE LET g == GCD(AbsInt(n), AbsInt(d))
         IN  <<(Sign(d) * n) \div g, AbsInt(d) \div g>>

R(n, d) == Norm(n, d)

NaN == <<0, 0>>

IsNaN(a) == a = NaN

RNeg(a) == <<-a[1], a[2]>>

RAdd(a, b) ==
    IF IsNaN(a) \/ IsNaN(b) THEN NaN
    ELSE IF a[2] = 0 /\ b[2] = 0 THEN (IF a = b THEN a ELSE NaN)
    ELSE IF a[2] = 0 THEN a
    ELSE IF b[2] = 0 THEN b
    ELSE Norm(a[1] * b[2] + b[1] * a[2], a[2] * b[2])

RSub(a, b) == RAdd(a, RNeg(b))

RMul(a, b) ==
    IF IsNaN(a) \/ IsNaN(b) THEN NaN
    ELSE Norm(a[1] * b[1], a[2] * b[2])

\* 1/0 = +inf, 1/inf = 0, 1/NaN = NaN (zero carries no sign in the model)
RRecip(a) == Norm(a[2], a[1])

RDiv(a, b) == RMul(a, RRecip(b))

\* float comparison: every comparison with NaN is False
RLt(a, b) ==
    /\ ~IsNaN(a)
    /\ ~IsNaN(b)
    /\ IF a[2] = 0 /\ b[2] = 0 THEN a[1] < b[1]
       ELSE a[1] * b[2] < b[1] * a[2]

RGt(a, b) == RLt(b, a)

RLe(a, b) == ~IsNaN(a) /\ ~IsNaN(b) /\ ~RLt(b, a)

\* Python abs()
RAbs(a) == <<AbsInt(a[1]), a[2]>>

\* Python min(a, b): b if b < a else a
PyMin(a, b) == IF RLt(b, a) THEN b ELSE a

RInt(n) == <<n, 1>>

(***************************************************************************)
(* ProductClassificationTool._run, the classification logic                *)
(* (tools.py 202-232).  The category names are the spec's names of the     *)
(* seven labels.                                                           *)
(***************************************************************************)
Categories ==
    {"RISING_STAR", "FADING_OUT", "SEASONAL_HERO", "EVERGREEN",
     "RANDOM_ERRATIC", "DECLINING_SEASONAL", "STABLE"}

\* the threshold taken inclusive: seasonality_score >= 0.3
IsSeasonalAtLeast(seasonality_score) == RLe(R(3, 10), seasonality_score)

\* is_seasonal = seasonality_score > 0.3
IsSeasonal(seasonality_score) == RGt(seasonality_score, R(3, 10))

\* the outcome of each branch (classification, confidence)
RisingStarUncapped(slope, r_squared) ==
    [classification |-> "RISING_STAR",
     confidence |-> RAdd(r_squared, RDiv(slope, RInt(2)))]

RisingStar(slope, r_squared) ==
    [classification |-> "RISING_STAR",
     confidence |-> PyMin(R(95, 100), RAdd(r_squared, RDiv(slope, RInt(2))))]

\* the FADING OUT confidence without abs()
FadingOutSigned(slope, r_squared) ==
    [classification |-> "FADING_OUT",
     confidence |-> PyMin(R(95, 100), RAdd(r_squared, RDiv(slope, RInt(2))))]

FadingOut(slope, r_squared) ==
    [classification |-> "FADING_OUT",
     confidence |-> PyMin(R(95, 100), RAdd(r_squared, RDiv(RAbs(slope), RInt(2))))]

SeasonalHero(seasonality_score) ==
    [classification |-> "SEASONAL_HERO",
     confidence |-> PyMin(R(9, 10), seasonality_score)]

\* the EVERGREEN confidence growing with the score
EvergreenPlusScore(seasonality_score) ==
    [classification |-> "EVERGREEN",
     confidence |-> RAdd(R(8, 10), seasonality_score)]

Evergreen(seasonality_score) ==
    [classification |-> "EVERGREEN",
     confidence |-> RSub(R(8, 10), seasonality_score)]

RandomErratic == [classification |-> "RANDOM_ERRATIC", confidence |-> R(6, 10)]

DecliningSeasonal(slope, seasonality_score) ==
    [classification |-> "DECLINING_SEASONAL",
     confidence |-> PyMin(R(85, 100), RAdd(seasonality_score, RDiv(RAbs(slope), RInt(3))))]

Stable == [classification |-> "STABLE", confidence |-> R(5, 10)]

\* the chain with its last branch an elif: an input no branch takes is left
\* without a classification
ClassifyNoCatchAll(slope, r_squared, seasonality_score) ==
    LET is_seasonal == IsSeasonal(seasonality_score)
    IN  IF RGt(slope, R(1, 2)) /\ RGt(r_squared, R(1, 2)) THEN RisingStar(slope, r_squared)
        ELSE IF RLt(slope, R(-1, 2)) /\ RGt(r_squared, R(1, 2)) THEN FadingOut(slope, r_squared)
        ELSE IF is_seasonal /\ RLt(RAbs(slope), R(3, 10)) THEN SeasonalHero(seasonality_score)
        ELSE IF ~is_seasonal /\ RLt(RAbs(slope), R(3, 10)) THEN Evergreen(seasonality_score)
        ELSE IF RLt(r_squared, R(3, 10)) /\ ~is_seasonal THEN RandomErratic
        ELSE IF is_seasonal /\ RLt(slope, R(-2, 10)) THEN DecliningSeasonal(slope, seasonality_score)
        ELSE IF ~is_seasonal THEN Stable
        ELSE [classification |-> "UNCLASSIFIED", confidence |-> NaN]

\* the chain with the DECLINING SEASONAL branch tested before FADING OUT
ClassifyDecliningFirst(slope, r_squared, seasonality_score) ==
    LET is_seasonal == IsSeasonal(seasonality_score)
    IN  IF RGt(slope, R(1, 2)) /\ RGt(r_squared, R(1, 2)) THEN RisingStar(slope, r_squared)
        ELSE IF is_seasonal /\ RLt(slope, R(-2, 10)) THEN DecliningSeasonal(slope, seasonality_score)
        ELSE IF RLt(slope, R(-1, 2)) /\ RGt(r_squared, R(1, 2)) THEN FadingOut(slope, r_squared)
        ELSE IF is_seasonal /\ RLt(RAbs(slope), R(3, 10)) THEN SeasonalHero(seasonality_score)
        ELSE IF ~is_seasonal /\ RLt(RAbs(slope), R(3, 10)) THEN Evergreen(seasonality_score)
        ELSE IF RLt(r_squared, R(3, 10)) /\ ~is_seasonal THEN RandomErratic
        ELSE Stable

\* the chain with the SEASONAL HERO branch narrowed to abs(slope) < 0.2
ClassifyNarrowSeasonalHero(slope, r_squared, seasonality_score) ==
    LET is_seasonal == IsSeasonal(seasonality_score)
    IN  IF RGt(slope, R(1, 2)) /\ RGt(r_squared, R(1, 2)) THEN RisingStar(slope, r_squared)
        ELSE IF RLt(slope, R(-1, 2)) /\ RGt(r_squared, R(1, 2)) THEN FadingOut(slope, r_squared)
        ELSE IF is_seasonal /\ RLt(RAbs(slope), R(2, 10)) THEN SeasonalHero(seasonality_score)
        ELSE IF ~is_seasonal /\ RLt(RAbs(slope), R(3, 10)) THEN Evergreen(seasonality_score)
        ELSE IF RLt(r_squared, R(3, 10)) /\ ~is_seasonal THEN RandomErratic
        ELSE IF is_seasonal /\ RLt(slope, R(-2, 10)) THEN DecliningSeasonal(slope, seasonality_score)
        ELSE Stable

\* the if / elif chain of lines 205-232: the first branch whose condition holds
Classify(slope, r_squared, seasonality_score) ==
    LET is_seasonal == IsSeasonal(seasonality_score)
    IN  IF RGt(slope, R(1, 2)) /\ RGt(r_squared, R(1, 2)) THEN RisingStar(slope, r_squared)
        ELSE IF RLt(slope, R(-1, 2)) /\ RGt(r_squared, R(1, 2)) THEN FadingOut(slope, r_squared)
        ELSE IF is_seasonal /\ RLt(RAbs(slope), R(3, 10)) THEN SeasonalHero(seasonality_score)
        ELSE IF ~is_seasonal /\ RLt(RAbs(slope), R(3, 10)) THEN Evergreen(seasonality_score)
        ELSE IF RLt(r_squared, R(3, 10)) /\ ~is_seasonal THEN RandomErratic
        ELSE IF is_seasonal /\ RLt(slope, R(-2, 10)) THEN DecliningSeasonal(slope, seasonality_score)
        ELSE Stable

(***************************************************************************)
(* The data file.  A row is [Product, Date, Units_Sold]; Date is the       *)
(* parsed 'YYYY-MM-DD' string, <<year, month, day>>, so that               *)
(* pd.to_datetime(...).dt.month is its second component and the order of   *)
(* dates is the lexicographic order.                                       *)
(***************************************************************************)
\* data[data[product_col] == product_name]
FilterProduct(data, product_name) ==
    SelectSeq(data, LAMBDA row : row.Product = product_name)

\* product_data['Date'].dt.month
MonthOf(row) == row.Date[2]

DateLt(d1, d2) ==
    \/ d1[1] < d2[1]
    \/ d1[1] = d2[1] /\ d1[2] < d2[2]
    \/ d1[1] = d2[1] /\ d1[2] = d2[2] /\ d1[3] < d2[3]

\* the slice left in file order
KeepFileOrder(rows) == rows

RECURSIVE InsertByDate(_, _)
InsertByDate(row, sorted) ==
    IF sorted = <<>> THEN <<row>>
    ELSE IF DateLt(row.Date, Head(sorted).Date) THEN <<row>> \o sorted
    ELSE <<Head(sorted)>> \o InsertByDate(row, Tail(sorted))

\* product_data.sort_values('Date'): ascending; rows of equal date keep file order
RECURSIVE SortByDate(_)
SortByDate(rows) ==
    IF rows = <<>> THEN <<>>
    ELSE InsertByDate(rows[Len(rows)], SortByDate(SubSeq(rows, 1, Len(rows) - 1)))

\* product_data[sales_col].values
SalesOf(rows) == [i \in 1..Len(rows) |-> rows[i].Units_Sold]

RECURSIVE SumSeq(_)
SumSeq(xs) == IF xs = <<>> THEN 0 ELSE Head(xs) + SumSeq(Tail(xs))

(***************************************************************************)
(* Monthly averages: product_data.groupby('Month')[sales_col].mean(), a    *)
(* series indexed by the months that occur, in ascending month order.      *)
(***************************************************************************)
MonthsPresent(rows) == {MonthOf(rows[i]) : i \in 1..Len(rows)}

MonthlyAvg(rows) ==
    [m \in MonthsPresent(rows) |->
        LET inMonth == SelectSeq(rows, LAMBDA row : MonthOf(row) = m)
        IN  R(SumSeq(SalesOf(inMonth)), Len(inMonth))]

RECURSIVE RSumOver(_, _)
RSumOver(f, S) ==
    IF S = {} THEN RInt(0)
    ELSE LET m == CHOOSE x \in S : TRUE
         IN  RAdd(f[m], RSumOver(f, S \ {m}))

\* Series.mean(): NaN for an empty series
SeriesMean(f) ==
    IF DOMAIN f = {} THEN NaN
    ELSE RDiv(RSumOver(f, DOMAIN f), RInt(Cardinality(DOMAIN f)))

\* Series.max() / Series.min(): NaN for an empty series
SeriesMax(f) ==
    IF DOMAIN f = {} THEN NaN
    ELSE f[CHOOSE m \in DOMAIN f : \A k \in DOMAIN f : RLe(f[k], f[m])]

SeriesMin(f) ==
    IF DOMAIN f = {} THEN NaN
    ELSE f[CHOOSE m \in DOMAIN f : \A k \in DOMAIN f : RLe(f[m], f[k])]

\* the last index, in ascending month order, holding the largest value
LastLargest(f, S) ==
    CHOOSE m \in S :
        /\ \A k \in S : RLe(f[k], f[m])
        /\ \A k \in S : f[k] = f[m] => k <= m

\* the first index, in ascending month order, holding the largest value
FirstLargest(f, S) ==
    CHOOSE m \in S :
        /\ \A k \in S : RLe(f[k], f[m])
        /\ \A k \in S : f[k] = f[m] => m <= k

FirstSmallest(f, S) ==
    CHOOSE m \in S :
        /\ \A k \in S : RLe(f[m], f[k])
        /\ \A k \in S : f[k] = f[m] => m <= k

\* Series.nlargest(n).index.tolist() with keep='first'
RECURSIVE NLargestFrom(_, _, _)
NLargestFrom(f, S, n) ==
    IF n = 0 \/ S = {} THEN <<>>
    ELSE LET m == FirstLargest(f, S)
         IN  <<m>> \o NLargestFrom(f, S \ {m}, n - 1)

NLargest(f, n) == NLargestFrom(f, DOMAIN f, n)

\* Series.nsmallest(n).index.tolist() with keep='first'
RECURSIVE NSmallestFrom(_, _, _)
NSmallestFrom(f, S, n) ==
    IF n = 0 \/ S = {} THEN <<>>
    ELSE LET m == FirstSmallest(f, S)
         IN  <<m>> \o NSmallestFrom(f, S \ {m}, n - 1)

NSmallest(f, n) == NSmallestFrom(f, DOMAIN f, n)

\* seasonality_score = (max_month - min_month) / monthly_avg.mean()
SeasonalityScore(monthly_avg) ==
    RDiv(RSub(SeriesMax(monthly_avg), SeriesMin(monthly_avg)), SeriesMean(monthly_avg))

\* the tool refusing a series of fewer than 3 distinct months
SeasonalityRunNeedsThree(data, product_name) ==
    LET product_data == FilterProduct(data, product_name)
        monthly_avg == MonthlyAvg(product_data)
        seasonality_score == SeasonalityScore(monthly_avg)
    IN  IF Cardinality(DOMAIN monthly_avg) < 3
        THEN [kind |-> "error", tool |-> "seasonality", product_name |-> product_name,
              exception |-> "InsufficientData"]
        ELSE [kind |-> "report",
              tool |-> "seasonality",
              product_name |-> product_name,
              seasonality_score |-> seasonality_score,
              is_seasonal |-> IsSeasonal(seasonality_score),
              peak_months |-> NLargest(monthly_avg, 3),
              low_months |-> NSmallest(monthly_avg, 3)]

(***************************************************************************)
(* SeasonalityAnalysisTool._run (tools.py 21-70).  The returned text is    *)
(* modelled by the values interpolated into it.  seasonal_strength (a      *)
(* standard deviation, irrational in general) is left out.  A product      *)
(* without rows raises nothing here: every aggregate of the empty series   *)
(* is NaN and the report is produced.                                      *)
(***************************************************************************)
SeasonalityRun(data, product_name) ==
    LET product_data == FilterProduct(data, product_name)
        monthly_avg == MonthlyAvg(product_data)
        seasonality_score == SeasonalityScore(monthly_avg)
    IN  [kind |-> "report",
         tool |-> "seasonality",
         product_name |-> product_name,
         seasonality_score |-> seasonality_score,
         is_seasonal |-> IsSeasonal(seasonality_score),
         peak_months |-> NLargest(monthly_avg, 3),
         low_months |-> NSmallest(monthly_avg, 3)]

(***************************************************************************)
(* LinearRegression().fit(X, y) and .score(X, y) with X = 0..n-1           *)
(* (scikit-learn).  fit raises ValueError on 0 samples; with 1 sample the  *)
(* least-squares solution of minimal norm has coef_ = 0.  score is         *)
(* r2_score: NaN with fewer than 2 samples; 1.0 when both the residual and *)
(* the total sum of squares are 0; 1 - SSres/SStot otherwise, which for    *)
(* the one-predictor fit is Sxy^2 / (Sxx * Syy).                           *)
(***************************************************************************)
\* n * Sxy = n * sum(x*y) - sum(x) * sum(y), x = 0..n-1
NSxy(y) ==
    LET n == Len(y)
    IN  n * SumSeq([i \in 1..n |-> (i - 1) * y[i]])
          - SumSeq([i \in 1..n |-> i - 1]) * SumSeq(y)

NSxx(y) ==
    LET n == Len(y)
        sx == SumSeq([i \in 1..n |-> i - 1])
    IN  n * SumSeq([i \in 1..n |-> (i - 1) * (i - 1)]) - sx * sx

NSyy(y) ==
    LET n == Len(y)
    IN  n * SumSeq([i \in 1..n |-> y[i] * y[i]]) - SumSeq(y) * SumSeq(y)

\* model.coef_[0]
FitSlope(y) ==
    IF Len(y) = 1 THEN RInt(0)
    ELSE R(NSxy(y), NSxx(y))

\* the score taken to be 0 when y has no variance
FitScoreZeroVariance(y) ==
    IF Len(y) < 2 THEN NaN
    ELSE IF NSyy(y) = 0 THEN RInt(0)
    ELSE RMul(R(NSxy(y), NSxx(y)), R(NSxy(y), NSyy(y)))

\* model.score(X, y)
FitScore(y) ==
    IF Len(y) < 2 THEN NaN
    ELSE IF NSyy(y) = 0 THEN RInt(1)
    ELSE RMul(R(NSxy(y), NSxx(y)), R(NSxy(y), NSyy(y)))

\* strength with the thresholds taken inclusive
StrengthInclusive(r_squared) ==
    IF RLe(R(7, 10), r_squared) THEN "STRONG"
    ELSE IF RLe(R(4, 10), r_squared) THEN "MODERATE"
    ELSE "WEAK"

\* strength from r_squared (lines 125-131)
Strength(r_squared) ==
    IF RGt(r_squared, R(7, 10)) THEN "STRONG"
    ELSE IF RGt(r_squared, R(4, 10)) THEN "MODERATE"
    ELSE "WEAK"

\* direction with the thresholds at 0.2 and -0.2
DirectionLowThreshold(slope) ==
    IF RGt(slope, R(2, 10)) THEN "RISING"
    ELSE IF RLt(slope, R(-2, 10)) THEN "DECLINING"
    ELSE "STABLE"

\* direction from slope (lines 133-139)
Direction(slope) ==
    IF RGt(slope, R(1, 2)) THEN "RISING"
    ELSE IF RLt(slope, R(-1, 2)) THEN "DECLINING"
    ELSE "STABLE"

\* the percentage without the guard on first_value
TotalChangePctUnguarded(first_value, last_value) ==
    RMul(RDiv(RInt(last_value - first_value), RInt(first_value)), RInt(100))

\* total_change_pct (line 109)
TotalChangePct(first_value, last_value) ==
    IF first_value > 0
    THEN RMul(R(last_value - first_value, first_value), RInt(100))
    ELSE RInt(0)

\* product_data.head(12)
HeadRows(rows, n) ==
    IF Len(rows) <= n THEN rows ELSE SubSeq(rows, 1, n)

\* product_data.tail(12)
TailRows(rows, n) ==
    IF Len(rows) <= n THEN rows ELSE SubSeq(rows, Len(rows) - n + 1, Len(rows))

\* what the except clause returns: "Error in <tool>: <message>"
ToolError(tool, product_name, exception) ==
    [kind |-> "error", tool |-> tool, product_name |-> product_name,
     exception |-> exception]

(***************************************************************************)
(* TrendAnalysisTool._run (tools.py 80-163).                               *)
(***************************************************************************)
TrendRun(data, product_name) ==
    LET product_data == SortByDate(FilterProduct(data, product_name))
        y == SalesOf(product_data)
    IN  IF Len(product_data) = 0
        THEN ToolError("trend", product_name, "ValueError")
        ELSE LET slope == FitSlope(y)
                 r_squared == FitScore(y)
                 y_recent == SalesOf(TailRows(product_data, 12))
                 recent == Len(product_data) >= 12
             IN  [kind |-> "report",
                  tool |-> "trend",
                  product_name |-> product_name,
                  slope |-> slope,
                  r_squared |-> r_squared,
                  recent_slope |-> IF recent THEN FitSlope(y_recent) ELSE slope,
                  recent_r_squared |-> IF recent THEN FitScore(y_recent) ELSE r_squared,
                  total_change_pct |-> TotalChangePct(y[1], y[Len(y)]),
                  strength |-> Strength(r_squared),
                  direction |-> Direction(slope)]

\* the classification tool fitting its slice in file order
ClassificationRunUnsorted(data, product_name) ==
    LET product_data == FilterProduct(data, product_name)
        y == SalesOf(product_data)
    IN  IF Len(product_data) = 0
        THEN ToolError("classification", product_name, "ValueError")
        ELSE LET slope == FitSlope(y)
                 r_squared == FitScore(y)
                 seasonality_score == SeasonalityScore(MonthlyAvg(product_data))
                 c == Classify(slope, r_squared, seasonality_score)
             IN  [kind |-> "report",
                  tool |-> "classification",
                  product_name |-> product_name,
                  classification |-> c.classification,
                  confidence |-> c.confidence,
                  slope |-> slope,
                  r_squared |-> r_squared,
                  is_seasonal |-> IsSeasonal(seasonality_score),
                  seasonality_score |-> seasonality_score]

(***************************************************************************)
(* ProductClassificationTool._run (tools.py 173-256): recomputes the fit   *)
(* and the seasonality score from the file, then classifies.               *)
(***************************************************************************)
ClassificationRun(data, product_name) ==
    LET product_data == SortByDate(FilterProduct(data, product_name))
        y == SalesOf(product_data)
    IN  IF Len(product_data) = 0
        THEN ToolError("classification", product_name, "ValueError")
        ELSE LET slope == FitSlope(y)
                 r_squared == FitScore(y)
                 seasonality_score == SeasonalityScore(MonthlyAvg(product_data))
                 c == Classify(slope, r_squared, seasonality_score)
             IN  [kind |-> "report",
                  tool |-> "classification",
                  product_name |-> product_name,
                  classification |-> c.classification,
                  confidence |-> c.confidence,
                  slope |-> slope,
                  r_squared |-> r_squared,
                  is_seasonal |-> IsSeasonal(seasonality_score),
                  seasonality_score |-> seasonality_score]

(***************************************************************************)
(* Bounds of the model.                                                    *)
(***************************************************************************)
\* rows of product "A" in the data file
MaxRows == 2

\* length of the product_list given to analyze_multiple_products
MaxBatch == 2

\* the wall clock reads 0..MaxClock
MaxClock == 1

\* classifier inputs are the multiples of 1/GridDen
GridDen == 20

\* |slope| <= SlopeMax / GridDen
SlopeMax == 13

\* seasonality_score <= ScoreMax / GridDen
ScoreMax == 25

(***************************************************************************)
(* The data files the model runs on: product "A" has 1..MaxRows rows of    *)
(* any of the unit values, product "B" a fixed seasonal series; "G" is a   *)
(* product name no row carries.                                            *)
(***************************************************************************)
UnitValues == {0, 30}

ProductNames == {"A", "B", "G"}

MkRows(p, ys) ==
    [i \in 1..Len(ys) |-> [Product |-> p, Date |-> <<2022, i, 1>>, Units_Sold |-> ys[i]]]

SeqsUpTo(S, n) == UNION {[1..k -> S] : k \in 1..n}

Tables == {MkRows("A", ys) \o MkRows("B", <<10, 30, 10, 20>>) : ys \in SeqsUpTo(UnitValues, MaxRows)}

HasRows(data, product_name) == Len(FilterProduct(data, product_name)) > 0

Threads == {1, 2}

(***************************************************************************)
(* State.                                                                  *)
(***************************************************************************)
VARIABLES
    table,         \* the rows of the CSV file at self.data_path
    results,       \* self.results of the one CrewAIProductAnalyzer
    now,           \* the last reading of the wall clock (datetime.now())
    pc,            \* per thread: where its analyze_multiple_products call is
    product_list,  \* per thread: the argument of analyze_multiple_products
    idx,           \* per thread: i of the for loop (1-based)
    all_results,   \* per thread: the local all_results dict
    product_name,  \* per thread: argument of the running analyze_product
    step,          \* per thread: index of the next task of crew.tasks
    outputs,       \* per thread: outputs of the crew's tasks run so far
    ret,           \* per thread: what analyze_product returns
    outcomes,      \* history, per thread: the value returned by each call of the loop
    runs,          \* history: [product_name, result, entry] of every stored analysis
    cin,           \* input of the classifier under test
    cout,          \* its result
    session_state, \* the dashboard: st.session_state of the browser session
    widgets,       \* the dashboard: the values of the file uploader and the selectbox
    page,          \* the dashboard: what the running script has put on the page
    trace          \* history of the dashboard session

dashVars == <<session_state, widgets, page, trace>>

vars ==
    <<table, results, now, pc, product_list, idx, all_results, product_name,
      step, outputs, ret, outcomes, runs, cin, cout, dashVars>>

NoValue == [kind |-> "none"]

EmptyDict == [p \in {} |-> NoValue]

\* the dict rebuilt with the one key: d = {k: v}
DictReplace(d, k, v) == [q \in {k} |-> v]

\* d[k] = v on a Python dict
DictSet(d, k, v) == [q \in DOMAIN d \cup {k} |-> IF q = k THEN v ELSE d[q]]

(***************************************************************************)
(* The crew of analyze_product (main.py 54-100): four tasks run by         *)
(* Process.sequential in list order.  A tool task calls its agent's tool   *)
(* with the DataInput arguments (data_path, product_name) named in the     *)
(* task description (tasks.py); the orchestration task has no tool and     *)
(* gets the three other tasks as context (main.py 80).  What the language  *)
(* model writes around the tool results is not modelled.                   *)
(***************************************************************************)
DataPath == "sample_data.csv"

\* pd.read_csv(data_path)
ReadCsv(data_path) == table

\* the task list with the classification task put first
CrewTasksClassificationFirst == <<"classification", "seasonality", "trend", "orchestration">>

\* tasks=[...] of the Crew (main.py 90-95)
CrewTasks == <<"seasonality", "trend", "classification", "orchestration">>

\* orchestration_task.context (main.py 80)
OrchestrationContext == {"seasonality", "trend", "classification"}

\* DataInput (tools.py 8-11): all a tool's _run receives
ToolArgs(p) == [data_path |-> DataPath, product_name |-> p]

\* the tool of each agent (agents.py 5-7, tools=[...]) run on its arguments
RunTool(task, args) ==
    CASE task = "seasonality" -> SeasonalityRun(ReadCsv(args.data_path), args.product_name)
      [] task = "trend" -> TrendRun(ReadCsv(args.data_path), args.product_name)
      [] task = "classification" -> ClassificationRun(ReadCsv(args.data_path), args.product_name)

\* position of a tool task among the findings of a synthesis
FindingIndex(task) ==
    CASE task = "seasonality" -> 1 [] task = "trend" -> 2 [] task = "classification" -> 3

\* a task whose tool result is looked up in self.results by tool alone,
\* whatever product the stored analysis was for
ExecuteTaskCached(task, p, prior) ==
    IF task = "orchestration"
    THEN LET context == SelectSeq(prior, LAMBDA o : o.task \in OrchestrationContext)
         IN  [task |-> task,
              input |-> [context |-> context],
              output |-> [kind |-> "synthesis",
                          product_name |-> p,
                          findings |-> [i \in 1..Len(context) |-> context[i].output]]]
    ELSE IF DOMAIN results # {}
    THEN LET q == CHOOSE x \in DOMAIN results : TRUE
         IN  [task |-> task,
              input |-> ToolArgs(p),
              output |-> results[q].analysis_result.findings[FindingIndex(task)]]
    ELSE [task |-> task,
          input |-> ToolArgs(p),
          output |-> RunTool(task, ToolArgs(p))]

\* one task of the crew: [task, input, output]
ExecuteTask(task, p, prior) ==
    IF task = "orchestration"
    THEN LET context == SelectSeq(prior, LAMBDA o : o.task \in OrchestrationContext)
         IN  [task |-> task,
              input |-> [context |-> context],
              output |-> [kind |-> "synthesis",
                          product_name |-> p,
                          findings |-> [i \in 1..Len(context) |-> context[i].output]]]
    ELSE [task |-> task,
          input |-> ToolArgs(p),
          output |-> RunTool(task, ToolArgs(p))]

\* error_msg of the except clause (main.py 136)
ErrorMsg(p) == [kind |-> "crew_error", product_name |-> p]

\* the dict stored in self.results[product_name] (main.py 115-123)
ResultEntry(result, timestamp) ==
    [timestamp |-> timestamp,
     analysis_result |-> result,
     crew_info |-> [agents_used |-> 4,
                    tasks_completed |-> Len(CrewTasks),
                    process_type |-> "Sequential Multi-Agent"]]

(***************************************************************************)
(* Actions of a thread t running analyze_multiple_products(product_list)   *)
(* on the shared analyzer.                                                 *)
(***************************************************************************)
\* all_results = {} and the loop starts (main.py 159-161)
StartBatch(t) ==
    /\ pc[t] = "start"
    /\ pc' = [pc EXCEPT ![t] = "loop"]
    /\ all_results' = [all_results EXCEPT ![t] = EmptyDict]
    /\ idx' = [idx EXCEPT ![t] = 1]
    /\ UNCHANGED <<table, results, now, product_list, product_name, step, outputs,
                   ret, outcomes, runs, cin, cout, dashVars>>

\* self.analyze_product(product): the tasks and the crew are built (main.py 54-100)
CallAnalyze(t) ==
    /\ pc[t] = "loop"
    /\ idx[t] <= Len(product_list[t])
    /\ pc' = [pc EXCEPT ![t] = "kickoff"]
    /\ product_name' = [product_name EXCEPT ![t] = product_list[t][idx[t]]]
    /\ step' = [step EXCEPT ![t] = 1]
    /\ outputs' = [outputs EXCEPT ![t] = <<>>]
    /\ ret' = [ret EXCEPT ![t] = NoValue]
    /\ UNCHANGED <<table, results, now, product_list, idx, all_results, outcomes,
                   runs, cin, cout, dashVars>>

\* crew.kickoff() runs the next task (main.py 112, Process.sequential)
RunTask(t) ==
    /\ pc[t] = "kickoff"
    /\ step[t] <= Len(CrewTasks)
    /\ outputs' = [outputs EXCEPT ![t] =
                      Append(@, ExecuteTask(CrewTasks[step[t]], product_name[t], @))]
    /\ step' = [step EXCEPT ![t] = @ + 1]
    /\ UNCHANGED <<table, results, now, pc, product_list, idx, all_results,
                   product_name, ret, outcomes, runs, cin, cout, dashVars>>

\* the except clause also dropping the product's stored entry
KickoffRaisesDropsEntry(t) ==
    /\ pc[t] = "kickoff"
    /\ step[t] <= Len(CrewTasks)
    /\ ret' = [ret EXCEPT ![t] = ErrorMsg(product_name[t])]
    /\ results' = [q \in DOMAIN results \ {product_name[t]} |-> results[q]]
    /\ pc' = [pc EXCEPT ![t] = "return"]
    /\ UNCHANGED <<table, now, product_list, idx, all_results,
                   product_name, step, outputs, outcomes, runs, cin, cout, dashVars>>

\* crew.kickoff() raises (the language model or the framework fails):
\* the except clause returns error_msg (main.py 135-139)
KickoffRaises(t) ==
    /\ pc[t] = "kickoff"
    /\ step[t] <= Len(CrewTasks)
    /\ ret' = [ret EXCEPT ![t] = ErrorMsg(product_name[t])]
    /\ pc' = [pc EXCEPT ![t] = "return"]
    /\ UNCHANGED <<table, results, now, product_list, idx, all_results,
                   product_name, step, outputs, outcomes, runs, cin, cout, dashVars>>

\* the stored dict, timestamp included, is what is returned
StoreResultsReturnsEntry(t) ==
    /\ pc[t] = "kickoff"
    /\ step[t] = Len(CrewTasks) + 1
    /\ \E reading \in now..MaxClock :
          LET result == outputs[t][Len(outputs[t])].output
              entry == ResultEntry(result, reading)
          IN  /\ now' = reading
              /\ results' = DictSet(results, product_name[t], entry)
              /\ ret' = [ret EXCEPT ![t] = entry]
              /\ runs' = runs \cup {[product_name |-> product_name[t],
                                     result |-> entry, entry |-> entry]}
    /\ pc' = [pc EXCEPT ![t] = "return"]
    /\ UNCHANGED <<table, product_list, idx, all_results, product_name,
                   step, outputs, outcomes, cin, cout, dashVars>>

\* kickoff returned the last task's output: store it under the product's name
\* with the time read from the clock, and return it (main.py 112-133).  The
\* clock never runs backwards: a reading is at least the reading before it.
StoreResults(t) ==
    /\ pc[t] = "kickoff"
    /\ step[t] = Len(CrewTasks) + 1
    /\ \E reading \in now..MaxClock :
          LET result == outputs[t][Len(outputs[t])].output
              entry == ResultEntry(result, reading)
          IN  /\ now' = reading
              /\ results' = DictSet(results, product_name[t], entry)
              /\ ret' = [ret EXCEPT ![t] = result]
              /\ runs' = runs \cup {[product_name |-> product_name[t],
                                     result |-> result, entry |-> entry]}
    /\ pc' = [pc EXCEPT ![t] = "return"]
    /\ UNCHANGED <<table, product_list, idx, all_results, product_name,
                   step, outputs, outcomes, cin, cout, dashVars>>

\* the loop left at the first analysis that failed
ReturnToBatchStopsOnError(t) ==
    /\ pc[t] = "return"
    /\ all_results' = [all_results EXCEPT ![t] = DictSet(@, product_name[t], ret[t])]
    /\ outcomes' = [outcomes EXCEPT ![t] = Append(@, ret[t])]
    /\ idx' = [idx EXCEPT ![t] =
                  IF ret[t].kind = "crew_error" THEN Len(product_list[t]) + 1 ELSE @ + 1]
    /\ pc' = [pc EXCEPT ![t] = "loop"]
    /\ UNCHANGED <<table, results, now, product_list, product_name, step,
                   outputs, ret, runs, cin, cout, dashVars>>

\* all_results[product] = result, next i (main.py 165-166)
ReturnToBatch(t) ==
    /\ pc[t] = "return"
    /\ all_results' = [all_results EXCEPT ![t] = DictSet(@, product_name[t], ret[t])]
    /\ outcomes' = [outcomes EXCEPT ![t] = Append(@, ret[t])]
    /\ idx' = [idx EXCEPT ![t] = @ + 1]
    /\ pc' = [pc EXCEPT ![t] = "loop"]
    /\ UNCHANGED <<table, results, now, product_list, product_name, step,
                   outputs, ret, runs, cin, cout, dashVars>>

\* return all_results (main.py 178)
FinishBatch(t) ==
    /\ pc[t] = "loop"
    /\ idx[t] > Len(product_list[t])
    /\ pc' = [pc EXCEPT ![t] = "done"]
    /\ UNCHANGED <<table, results, now, product_list, idx, all_results,
                   product_name, step, outputs, ret, outcomes, runs, cin, cout, dashVars>>

(***************************************************************************)
(* The classifier on its own: an input (slope, r_squared,                  *)
(* seasonality_score) from a grid of rationals, then one classification.   *)
(***************************************************************************)
SlopeGrid == {R(k, GridDen) : k \in -SlopeMax..SlopeMax}

RSquaredGrid == {R(k, GridDen) : k \in 0..GridDen}

ScoreGrid == {R(k, GridDen) : k \in 0..ScoreMax}

\* the fit of the specification's worked example: slope 4.2, r_squared 0.78
ExampleSlopes == {R(42, 10)}

ExampleRSquared == {R(78, 100)}

ClassifyStep ==
    /\ cout = NoValue
    /\ cout' = Classify(cin.slope, cin.r_squared, cin.seasonality_score)
    /\ UNCHANGED <<cin, table, results, now, pc, product_list, idx, all_results,
                   product_name, step, outputs, ret, outcomes, runs, dashVars>>

(***************************************************************************)
(* The tools on their own: a data file holding a series of product "A"     *)
(* (and the rows of "B"), then any sequence of calls of the three tools'   *)
(* _run on it.                                                             *)
(***************************************************************************)
\* records of a short series of product "A"
MaxSeries == 4

\* records put before the twelve of RecentBase in a long series
MaxPrefix == 1

SeriesValues == {0, 17, 23}

\* one record a month, months 1, 2, 3, ... of a year
MonthlyDate(i) == <<2022, i, 1>>

\* one record a year, in months 1, 1, 2, 2, 1, 1, ...
YearlyDate(i) == <<2021 + i, 1 + (((i - 1) \div 2) % 2), 1>>

\* one record a week, four a month
WeeklyDate(i) == <<2022, 1 + ((i - 1) \div 4), 1 + 7 * ((i - 1) % 4)>>

\* the date of the i-th record of a series, by the calendar it follows
DateAt(calendar, i) ==
    CASE calendar = "monthly" -> MonthlyDate(i)
      [] calendar = "yearly" -> YearlyDate(i)
      [] calendar = "weekly" -> WeeklyDate(i)

MkSeries(p, calendar, ys) ==
    [i \in 1..Len(ys) |->
        [Product |-> p, Date |-> DateAt(calendar, i), Units_Sold |-> ys[i]]]

Reverse(rows) == [i \in 1..Len(rows) |-> rows[Len(rows) + 1 - i]]

RecentBase == <<10, 30, 10, 20, 30, 10, 20, 20, 30, 10, 30, 20>>

ShortSeries ==
    LET ys == SeqsUpTo(SeriesValues, MaxSeries)
    IN  {MkSeries("A", "monthly", y) : y \in ys} \cup {MkSeries("A", "yearly", y) : y \in ys}

LongSeries ==
    {MkSeries("A", "weekly", prefix \o RecentBase) :
        prefix \in {<<>>} \cup SeqsUpTo(SeriesValues, MaxPrefix)}

\* the files: the series in time order or in reverse, then the rows of "B"
\* the perfect lines of the specification's example, rising and falling
LineSeries ==
    {MkSeries("A", "weekly", <<10, 20, 30, 40, 50>>),
     MkSeries("A", "weekly", <<50, 40, 30, 20, 10>>)}

ToolTables ==
    LET series == ShortSeries \cup LongSeries \cup LineSeries
    IN  {rows \o MkRows("B", <<10, 30, 10, 20>>) :
            rows \in series \cup {Reverse(r) : r \in series}}

\* the slice written back into the frame in sorted order
DataSortedInPlace(data, p) ==
    SortByDate(FilterProduct(data, p)) \o SelectSeq(data, LAMBDA row : row.Product # p)

\* the frame read from the file once a _run has finished: the slice is a copy
\* (.copy(), lines 32, 91, 184), so the columns assigned and the sort change
\* the copy alone, and the file is only read
DataAfterRun(data, p) == data

\* tool._run(data_path, product_name)
ToolStep(tool, p) ==
    /\ cin' = [tool |-> tool, args |-> ToolArgs(p)]
    /\ cout' = RunTool(tool, ToolArgs(p))
    /\ table' = DataAfterRun(ReadCsv(DataPath), p)
    /\ UNCHANGED <<results, now, pc, product_list, idx, all_results,
                   product_name, step, outputs, ret, outcomes, runs, dashVars>>

SeasonalityStep(p) == ToolStep("seasonality", p)

TrendStep(p) == ToolStep("trend", p)

ClassificationStep(p) == ToolStep("classification", p)

(***************************************************************************)
(* The labels of the trend report on their own: strength and direction of  *)
(* a fit (slope, r_squared) taken from the grid.                           *)
(***************************************************************************)
LabelStep ==
    /\ cout = NoValue
    /\ cout' = [strength |-> Strength(cin.r_squared), direction |-> Direction(cin.slope)]
    /\ UNCHANGED <<cin, table, results, now, pc, product_list, idx, all_results,
                   product_name, step, outputs, ret, outcomes, runs, dashVars>>

(***************************************************************************)
(* The dashboard (app.py).  Streamlit runs the script from the top at      *)
(* every interaction, with the pressed button reading True for that one    *)
(* run; st.experimental_rerun() abandons the run and starts another with   *)
(* no button pressed.  A run is one step of the model, except the          *)
(* simulated analysis, whose four phases sleep 1.5 s each: an interaction  *)
(* during it abandons the run and starts the script again.  The uploaded   *)
(* file is taken to be readable and to hold the products of the sample     *)
(* data.                                                                   *)
(***************************************************************************)
\* products of the sample data (app.py 97)
DashProducts == <<"GlowCandle_X", "ClassicMug_Y", "RoseBox_Z">>

NoProduct == ""

\* the phases reported last to first
PhasesReversed == <<100, 75, 50, 25>>

\* the percentages of the four simulated phases (app.py 231-236)
Phases == <<25, 50, 75, 100>>

\* data is not None (app.py 136-156)
HasData(ss, w) == w.uploaded_file \/ ss.sample_data

\* the script gets as far as the simulated run (app.py 208, 226)
RunsSimulation(ss, w) ==
    HasData(ss, w) /\ ss.analysis_started /\ ~ss.analysis_complete

\* the title of the results panel names the product chosen first in the list
ResultsTitleFirstProduct(selected_product) == DashProducts[1]

\* st.subheader(f"Analysis Results for {selected_product}") (app.py 255)
ResultsTitle(selected_product) == selected_product

\* a selectbox that is not rendered loses its value: the next one shows the
\* first product
RenderWidgets(ss, w) ==
    IF HasData(ss, w) THEN w ELSE [w EXCEPT !.selected_product = DashProducts[1]]

\* what one run of the script with no button pressed puts on the page, up to
\* the end of the script or to the start of the simulated run
RenderPage(ss, w) ==
    IF ~HasData(ss, w)
    THEN [script |-> "idle", view |-> "welcome", deploy_button |-> "absent",
          status |-> "none", phase |-> 0, results_for |-> NoProduct]
    ELSE [script |-> IF RunsSimulation(ss, w) THEN "simulating" ELSE "idle",
          view |-> "main",
          deploy_button |-> IF ss.analysis_started THEN "disabled" ELSE "enabled",
          status |-> IF ss.analysis_started /\ ~ss.analysis_complete THEN "in_progress"
                     ELSE IF ss.analysis_complete THEN "complete" ELSE "none",
          phase |-> 0,
          results_for |-> IF ss.analysis_complete
                          THEN ResultsTitle(w.selected_product) ELSE NoProduct]

\* 'Analyze Another Product' clearing analysis_started alone
AnalyzeAnotherKeepsComplete(ss) == [ss EXCEPT !.analysis_started = FALSE]

\* the Deploy handler (app.py 196-198)
DeployPressed(ss) ==
    [ss EXCEPT !.analysis_started = TRUE, !.analysis_complete = FALSE, !.current_phase = 0]

\* the end of the simulated run (app.py 249)
SimulationDone(ss) == [ss EXCEPT !.analysis_complete = TRUE]

\* the 'Analyze Another Product' handler (app.py 381-382)
AnalyzeAnotherPressed(ss) ==
    [ss EXCEPT !.analysis_started = FALSE, !.analysis_complete = FALSE]

\* the 'Reset Demo' handler (app.py 428-432)
ResetPressed(ss) ==
    [ss EXCEPT !.analysis_started = FALSE, !.analysis_complete = FALSE,
               !.current_phase = 0, !.sample_data = FALSE]

\* the run that follows an interaction or a rerun, from the session state ss
\* and the widget values w it starts with
ScriptRun(ss, w) ==
    /\ session_state' = ss
    /\ widgets' = RenderWidgets(ss, w)
    /\ page' = RenderPage(ss, w)

\* the history after an interaction: a simulated run under way is abandoned
Interaction(tr) ==
    [tr EXCEPT !.interrupted = @ \/ page.script = "simulating",
               !.reported = IF page'.script = "simulating" THEN <<>> ELSE @]

pipelineVars ==
    <<table, results, now, pc, product_list, idx, all_results, product_name,
      step, outputs, ret, outcomes, runs, cin, cout>>

\* 'Use Sample Data' (app.py 94-115)
UseSampleData ==
    /\ ScriptRun([session_state EXCEPT !.sample_data = TRUE], widgets)
    /\ trace' = Interaction(trace)
    /\ UNCHANGED pipelineVars

\* a file is put into the uploader (app.py 87-91, 137-150)
UploadFile ==
    /\ ~widgets.uploaded_file
    /\ ScriptRun(session_state, [widgets EXCEPT !.uploaded_file = TRUE])
    /\ trace' = Interaction(trace)
    /\ UNCHANGED pipelineVars

\* the file is taken out of the uploader
RemoveFile ==
    /\ widgets.uploaded_file
    /\ ScriptRun(session_state, [widgets EXCEPT !.uploaded_file = FALSE])
    /\ trace' = Interaction(trace)
    /\ UNCHANGED pipelineVars

\* another product is chosen in the selectbox (app.py 184-188)
SelectProduct(p) ==
    /\ page.view = "main"
    /\ p # widgets.selected_product
    /\ ScriptRun(session_state, [widgets EXCEPT !.selected_product = p])
    /\ trace' = Interaction(trace)
    /\ UNCHANGED pipelineVars

\* 'Deploy CrewAI Agents', enabled on the page, is pressed (app.py 195-199)
Deploy ==
    /\ page.deploy_button = "enabled"
    /\ ScriptRun(DeployPressed(session_state), widgets)
    /\ trace' = [deployed_for |-> widgets.selected_product,
                 interrupted |-> FALSE,
                 reported |-> <<>>]
    /\ UNCHANGED pipelineVars

\* one phase of the simulated run: its progress is shown (app.py 238-241)
PhaseStep ==
    /\ page.script = "simulating"
    /\ page.phase < Len(Phases)
    /\ page' = [page EXCEPT !.phase = @ + 1]
    /\ trace' = [trace EXCEPT !.reported = Append(@, Phases[page.phase + 1])]
    /\ UNCHANGED <<session_state, widgets, pipelineVars>>

\* the simulated run ends: analysis_complete is set and the script reruns
\* (app.py 243-250)
CompleteRun ==
    /\ page.script = "simulating"
    /\ page.phase = Len(Phases)
    /\ ScriptRun(SimulationDone(session_state), widgets)
    /\ trace' = [trace EXCEPT !.interrupted = FALSE]
    /\ UNCHANGED pipelineVars

\* 'Analyze Another Product', under the results, is pressed (app.py 380-383)
AnalyzeAnother ==
    /\ page.results_for # NoProduct
    /\ ScriptRun(AnalyzeAnotherPressed(session_state), widgets)
    /\ trace' = Interaction(trace)
    /\ UNCHANGED pipelineVars

\* 'Reset Demo' in the sidebar is pressed (app.py 427-433).  The button is
\* the last statement of the script: a run that enters the simulated analysis
\* never gets to it, and the press is lost.
ResetDemo ==
    /\ IF RunsSimulation(session_state, widgets)
       THEN ScriptRun(session_state, widgets)
       ELSE ScriptRun(ResetPressed(session_state), widgets)
    /\ trace' = Interaction(trace)
    /\ UNCHANGED pipelineVars

\* the session before the first interaction (app.py 66-72)
InitDash ==
    /\ session_state = [analysis_started |-> FALSE, analysis_complete |-> FALSE,
                        current_phase |-> 0, sample_data |-> FALSE]
    /\ widgets = [uploaded_file |-> FALSE, selected_product |-> DashProducts[1]]
    /\ page = RenderPage(session_state, widgets)
    /\ trace = [deployed_for |-> NoProduct, interrupted |-> FALSE, reported |-> <<>>]

(***************************************************************************)
(* Specifications.                                                         *)
(***************************************************************************)
InitPipeline ==
    /\ table \in Tables
    /\ results = EmptyDict
    /\ now = 0
    /\ idx = [t \in Threads |-> 1]
    /\ all_results = [t \in Threads |-> EmptyDict]
    /\ product_name = [t \in Threads |-> "A"]
    /\ step = [t \in Threads |-> 1]
    /\ outputs = [t \in Threads |-> <<>>]
    /\ ret = [t \in Threads |-> NoValue]
    /\ outcomes = [t \in Threads |-> <<>>]
    /\ runs = {}
    /\ cin = NoValue
    /\ cout = NoValue
    /\ InitDash

\* one caller: thread 1 runs a batch, thread 2 never starts
Init ==
    /\ InitPipeline
    /\ pc = [t \in Threads |-> IF t = 1 THEN "start" ELSE "done"]
    /\ \E l \in SeqsUpTo(ProductNames, MaxBatch) :
          product_list = [t \in Threads |-> IF t = 1 THEN l ELSE <<>>]

\* two callers, one product each, on the same analyzer
InitConcurrent ==
    /\ InitPipeline
    /\ pc = [t \in Threads |-> "start"]
    /\ \E p \in ProductNames, q \in ProductNames :
          product_list = [t \in Threads |-> IF t = 1 THEN <<p>> ELSE <<q>>]

InitClassify ==
    /\ table = <<>>
    /\ results = EmptyDict
    /\ now = 0
    /\ pc = [t \in Threads |-> "done"]
    /\ product_list = [t \in Threads |-> <<>>]
    /\ idx = [t \in Threads |-> 1]
    /\ all_results = [t \in Threads |-> EmptyDict]
    /\ product_name = [t \in Threads |-> "A"]
    /\ step = [t \in Threads |-> 1]
    /\ outputs = [t \in Threads |-> <<>>]
    /\ ret = [t \in Threads |-> NoValue]
    /\ outcomes = [t \in Threads |-> <<>>]
    /\ runs = {}
    /\ cin \in [slope : SlopeGrid \cup ExampleSlopes,
               r_squared : RSquaredGrid \cup ExampleRSquared,
               seasonality_score : ScoreGrid]
    /\ cout = NoValue
    /\ InitDash

Next ==
    \/ \E t \in Threads : StartBatch(t)
    \/ \E t \in Threads : CallAnalyze(t)
    \/ \E t \in Threads : RunTask(t)
    \/ \E t \in Threads : KickoffRaises(t)
    \/ \E t \in Threads : StoreResults(t)
    \/ \E t \in Threads : ReturnToBatch(t)
    \/ \E t \in Threads : FinishBatch(t)

NextClassify == ClassifyStep

Spec == Init /\ [][Next]_vars

SpecConcurrent == InitConcurrent /\ [][Next]_vars

SpecClassify == InitClassify /\ [][NextClassify]_vars

InitIdle ==
    /\ results = EmptyDict
    /\ now = 0
    /\ pc = [t \in Threads |-> "done"]
    /\ product_list = [t \in Threads |-> <<>>]
    /\ idx = [t \in Threads |-> 1]
    /\ all_results = [t \in Threads |-> EmptyDict]
    /\ product_name = [t \in Threads |-> "A"]
    /\ step = [t \in Threads |-> 1]
    /\ outputs = [t \in Threads |-> <<>>]
    /\ ret = [t \in Threads |-> NoValue]
    /\ outcomes = [t \in Threads |-> <<>>]
    /\ runs = {}
    /\ InitDash

InitTools ==
    /\ InitIdle
    /\ table \in ToolTables
    /\ cin = NoValue
    /\ cout = NoValue

NextTools ==
    \/ \E p \in ProductNames : SeasonalityStep(p)
    \/ \E p \in ProductNames : TrendStep(p)
    \/ \E p \in ProductNames : ClassificationStep(p)

SpecTools == InitTools /\ [][NextTools]_vars

InitLabels ==
    /\ InitIdle
    /\ table = <<>>
    /\ cin \in [slope : SlopeGrid, r_squared : RSquaredGrid]
    /\ cout = NoValue

NextLabels == LabelStep

SpecLabels == InitLabels /\ [][NextLabels]_vars

InitDashboard ==
    /\ InitIdle
    /\ table = <<>>
    /\ cin = NoValue
    /\ cout = NoValue

NextDashboard ==
    \/ UseSampleData
    \/ UploadFile
    \/ RemoveFile
    \/ \E p \in {DashProducts[i] : i \in 1..Len(DashProducts)} : SelectProduct(p)
    \/ Deploy
    \/ PhaseStep
    \/ CompleteRun
    \/ AnalyzeAnother
    \/ ResetDemo

\* the script runs on by itself; the user acts when they please
SpecDashboard ==
    InitDashboard /\ [][NextDashboard]_vars /\ WF_vars(PhaseStep) /\ WF_vars(CompleteRun)

(***************************************************************************)
(* Properties of the classifier, checked under SpecClassify.               *)
(***************************************************************************)
Classified == cout # NoValue

\* the seven rules as the specification lists them (section 4.3)
RuleHolds(k, in) ==
    LET is_seasonal == RGt(in.seasonality_score, R(3, 10))
    IN  CASE k = 1 -> RGt(in.slope, R(1, 2)) /\ RGt(in.r_squared, R(1, 2))
          [] k = 2 -> RLt(in.slope, R(-1, 2)) /\ RGt(in.r_squared, R(1, 2))
          [] k = 3 -> is_seasonal /\ RLt(RAbs(in.slope), R(3, 10))
          [] k = 4 -> ~is_seasonal /\ RLt(RAbs(in.slope), R(3, 10))
          [] k = 5 -> RLt(in.r_squared, R(3, 10)) /\ ~is_seasonal
          [] k = 6 -> is_seasonal /\ RLt(in.slope, R(-2, 10))
          [] k = 7 -> TRUE

RuleCategory ==
    <<"RISING_STAR", "FADING_OUT", "SEASONAL_HERO", "EVERGREEN",
      "RANDOM_ERRATIC", "DECLINING_SEASONAL", "STABLE">>

FirstRule(in) == CHOOSE k \in 1..7 : RuleHolds(k, in) /\ \A j \in 1..(k - 1) : ~RuleHolds(j, in)

\* C1: classification is total and single-valued: every input of the grid gets
\* exactly one of the seven categories, and an input that none of the rules 1-6
\* takes gets STABLE.
C1_ClassificationTotal ==
    Classified =>
        /\ cout.classification \in Categories
        /\ Cardinality({c \in Categories : c = cout.classification}) = 1
        /\ (\A k \in 1..6 : ~RuleHolds(k, cin)) => cout.classification = "STABLE"

\* the catch-all case: classified, and no rule 1-6 holds
C1_Witness ==
    /\ Classified
    /\ \A k \in 1..6 : ~RuleHolds(k, cin)
    /\ cout.classification = "STABLE"

\* C2: the confidence lies in [0, 1] whichever rule fires.
C2_ConfidenceInUnitInterval ==
    Classified =>
        /\ RLe(RInt(0), cout.confidence)
        /\ RLe(cout.confidence, RInt(1))

\* a RISING STAR whose r_squared + slope/2 exceeds 1 and is capped at 0.95
C2_Witness ==
    /\ Classified
    /\ cout.classification = "RISING_STAR"
    /\ RGt(RAdd(cin.r_squared, RDiv(cin.slope, RInt(2))), RInt(1))
    /\ cout.confidence = R(95, 100)

\* C3: the category is that of the first rule, in the order 1..7, whose
\* predicate holds.
C3_FirstRuleWins ==
    Classified => cout.classification = RuleCategory[FirstRule(cin)]

\* an input matching rule 2 and rule 6 gets rule 2's category
C3_Witness ==
    /\ Classified
    /\ RuleHolds(2, cin)
    /\ RuleHolds(6, cin)
    /\ cout.classification = "FADING_OUT"

(***************************************************************************)
(* Properties of the pipeline, checked under Spec (one caller) and         *)
(* SpecConcurrent (two callers).                                           *)
(***************************************************************************)
ToolTasks == {"seasonality", "trend", "classification"}

\* the three tool results computed from the file for product p alone
FreshFindings(p) ==
    <<SeasonalityRun(table, p), TrendRun(table, p), ClassificationRun(table, p)>>

ZeroMean(p) ==
    /\ HasRows(table, p)
    /\ SeriesMean(MonthlyAvg(FilterProduct(table, p))) = RInt(0)

\* C4 (as claimed): for a product without rows the invocation fails and no
\* step returns a report.
C4_MissingProductFails ==
    \A t \in Threads :
        ~HasRows(table, product_name[t]) =>
            /\ \A i \in 1..Len(outputs[t]) :
                  outputs[t][i].task \in ToolTasks => outputs[t][i].output.kind = "error"
            /\ ret[t].kind \in {"none", "crew_error"}

\* C5 (as claimed): when the mean of the monthly means is 0, the seasonality
\* computation signals an error instead of returning a report.
C5_ZeroMeanSignalled ==
    \A t \in Threads :
        \A i \in 1..Len(outputs[t]) :
            (/\ ZeroMean(product_name[t])
             /\ outputs[t][i].task \in {"seasonality", "classification"})
                => outputs[t][i].output.kind = "error"

LastIndexOf(l, p) == CHOOSE i \in 1..Len(l) : l[i] = p /\ \A j \in (i + 1)..Len(l) : l[j] # p

\* C6: when a batch has returned, every product of the list was analysed and
\* has its entry in the batch result, whatever failed before or after it;
\* the entry of a product whose analysis did not fail is its analysis.
C6_BatchFailureConfined ==
    \A t \in Threads :
        pc[t] = "done" =>
            /\ Len(outcomes[t]) = Len(product_list[t])
            /\ \A i \in 1..Len(product_list[t]) :
                  LET p == product_list[t][i]
                  IN  /\ p \in DOMAIN all_results[t]
                      /\ all_results[t][p] = outcomes[t][LastIndexOf(product_list[t], p)]
                      /\ outcomes[t][i].kind # "crew_error" =>
                            /\ outcomes[t][i].kind = "synthesis"
                            /\ outcomes[t][i].product_name = p
                            /\ outcomes[t][i].findings = FreshFindings(p)

\* a batch whose first analysis failed and whose later product was analysed
C6_Witness ==
    \E t \in Threads :
        /\ pc[t] = "done"
        /\ \E i, j \in 1..Len(product_list[t]) :
              /\ i < j
              /\ product_list[t][i] # product_list[t][j]
              /\ outcomes[t][i].kind = "crew_error"
              /\ outcomes[t][j].kind = "synthesis"
              /\ all_results[t][product_list[t][j]].kind = "synthesis"

TaskNames(t) == [i \in 1..Len(outputs[t]) |-> outputs[t][i].task]

IsPrefix(a, b) == Len(a) <= Len(b) /\ a = SubSeq(b, 1, Len(a))

OwnKeyOnly ==
    /\ DOMAIN results \subseteq DOMAIN results'
    /\ \A q \in DOMAIN results' :
          (q \notin DOMAIN results \/ results'[q] # results[q]) =>
              \E t \in Threads :
                  /\ pc[t] = "kickoff"
                  /\ pc'[t] = "return"
                  /\ product_name[t] = q

\* what an invocation returned and stored is what it computes alone
AloneResult ==
    \A t \in Threads :
        ret[t].kind = "synthesis" =>
            /\ ret[t].findings = FreshFindings(product_name[t])
            /\ product_name[t] \in DOMAIN results
            /\ results[product_name[t]].analysis_result = ret[t]

NoCallRunning == \A t \in Threads : pc[t] \in {"start", "loop", "done"}

RanOnSeries(tool) ==
    /\ cin # NoValue
    /\ cin.tool = tool
    /\ HasRows(table, cin.args.product_name)

\* the rows of the product of the last call, in file order
CalledSeries == FilterProduct(table, cin.args.product_name)

OutOfTimeOrder(rows) == \E i \in 1..Len(rows), j \in 1..Len(rows) : i < j /\ DateLt(rows[j].Date, rows[i].Date)

\* C11: the input table is never modified by the analyzers: every run of a
\* tool, for any product, leaves the table with the rows, columns and values
\* it had.
C11_TableNeverModified == [][table' = table]_vars

\* the classification tool has sorted and extended its slice of a file whose
\* rows of the product are not in time order
C11_Witness ==
    /\ RanOnSeries("classification")
    /\ cout.kind = "report"
    /\ OutOfTimeOrder(CalledSeries)

\* the monthly means as the specification defines them: all observations of a
\* calendar month pooled, whatever their year
RECURSIVE SumUnitsAt(_, _)
SumUnitsAt(rows, I) ==
    IF I = {} THEN 0
    ELSE LET i == CHOOSE x \in I : TRUE
         IN  rows[i].Units_Sold + SumUnitsAt(rows, I \ {i})

PooledMonths(rows) == {rows[i].Date[2] : i \in 1..Len(rows)}

PooledMean(rows, m) ==
    LET I == {i \in 1..Len(rows) : rows[i].Date[2] = m}
    IN  R(SumUnitsAt(rows, I), Cardinality(I))

\* (largest monthly mean - smallest monthly mean) / mean of the monthly means
PooledScore(rows) ==
    LET months == PooledMonths(rows)
        hi == CHOOSE m \in months : \A k \in months : RLe(PooledMean(rows, k), PooledMean(rows, m))
        lo == CHOOSE m \in months : \A k \in months : RLe(PooledMean(rows, m), PooledMean(rows, k))
        total == RSumOver([m \in months |-> PooledMean(rows, m)], months)
    IN  RDiv(RSub(PooledMean(rows, hi), PooledMean(rows, lo)),
             RDiv(total, RInt(Cardinality(months))))

\* C12: for every non-empty series the seasonality score is (largest monthly
\* mean - smallest monthly mean) / mean of the monthly means, the means pooling
\* the observations of a calendar month across years, and is_seasonal is true
\* exactly when the score is > 0.3.
C12_ScoreFormula ==
    RanOnSeries("seasonality") =>
        /\ cout.seasonality_score = PooledScore(CalledSeries)
        /\ cout.is_seasonal <=> RGt(PooledScore(CalledSeries), R(3, 10))

\* a month observed in two years, and a score of exactly 0.3: not seasonal
C12_Witness ==
    /\ RanOnSeries("seasonality")
    /\ \E i, j \in 1..Len(CalledSeries) :
          /\ CalledSeries[i].Date[2] = CalledSeries[j].Date[2]
          /\ CalledSeries[i].Date[1] # CalledSeries[j].Date[1]
    /\ cout.seasonality_score = R(3, 10)
    /\ ~cout.is_seasonal

\* C13 (as claimed): every series whose monthly means are all equal has
\* seasonality_score = 0 and is_seasonal = false.
C13_EqualMeansScoreZero ==
    /\ RanOnSeries("seasonality")
    /\ \A m, k \in PooledMonths(CalledSeries) :
          PooledMean(CalledSeries, m) = PooledMean(CalledSeries, k)
    => /\ cout.seasonality_score = RInt(0)
       /\ ~cout.is_seasonal

\* month a is listed before month b among the peaks / among the lows: by mean,
\* and by month number when the means are equal
PeakBefore(rows, a, b) ==
    \/ RGt(PooledMean(rows, a), PooledMean(rows, b))
    \/ PooledMean(rows, a) = PooledMean(rows, b) /\ a < b

LowBefore(rows, a, b) ==
    \/ RLt(PooledMean(rows, a), PooledMean(rows, b))
    \/ PooledMean(rows, a) = PooledMean(rows, b) /\ a < b

Min2(a, b) == IF a < b THEN a ELSE b

Before(rows, a, b, peaks) ==
    IF peaks THEN PeakBefore(rows, a, b) ELSE LowBefore(rows, a, b)

\* list holds the first 3 months (or all, when fewer) of the order Before
RankedMonths(list, rows, peaks) ==
    LET months == PooledMonths(rows)
        listed == {list[i] : i \in 1..Len(list)}
    IN  /\ Len(list) = Min2(3, Cardinality(months))
        /\ listed \subseteq months
        /\ \A i \in 1..(Len(list) - 1) : Before(rows, list[i], list[i + 1], peaks)
        /\ \A m \in months \ listed : \A e \in listed : Before(rows, e, m, peaks)

\* C14: peak_months lists the 3 months of largest monthly mean in descending
\* order of mean, low_months the 3 months of smallest monthly mean in ascending
\* order of mean; of two months with equal means the one with the smaller month
\* number comes first and is preferred for inclusion.
C14_PeakAndLowMonths ==
    RanOnSeries("seasonality") =>
        /\ RankedMonths(cout.peak_months, CalledSeries, TRUE)
        /\ RankedMonths(cout.low_months, CalledSeries, FALSE)

\* four months, and a month left out of the peaks whose mean equals that of a
\* listed month
C14_Witness ==
    /\ RanOnSeries("seasonality")
    /\ Cardinality(PooledMonths(CalledSeries)) >= 4
    /\ \E m \in PooledMonths(CalledSeries), i \in 1..Len(cout.peak_months) :
          /\ \A j \in 1..Len(cout.peak_months) : cout.peak_months[j] # m
          /\ PooledMean(CalledSeries, m) = PooledMean(CalledSeries, cout.peak_months[i])
          /\ cout.peak_months[i] < m

\* C15: when the series covers fewer than 3 distinct calendar months (1
\* included) the seasonality analysis does not fail: peak_months and low_months
\* each hold exactly the months that exist.
C15_FewMonthsPartialLists ==
    (RanOnSeries("seasonality") /\ Cardinality(PooledMonths(CalledSeries)) < 3) =>
        /\ cout.kind = "report"
        /\ Len(cout.peak_months) = Cardinality(PooledMonths(CalledSeries))
        /\ {cout.peak_months[i] : i \in 1..Len(cout.peak_months)} = PooledMonths(CalledSeries)
        /\ Len(cout.low_months) = Cardinality(PooledMonths(CalledSeries))
        /\ {cout.low_months[i] : i \in 1..Len(cout.low_months)} = PooledMonths(CalledSeries)

\* a series of several records, all of one calendar month
C15_Witness ==
    /\ RanOnSeries("seasonality")
    /\ Len(CalledSeries) > 1
    /\ Cardinality(PooledMonths(CalledSeries)) = 1
    /\ cout.kind = "report"
    /\ Len(cout.peak_months) = 1
    /\ cout.peak_months = cout.low_months

\* the values of a series of distinct timestamps in time order: the k-th is
\* that of the row with k - 1 rows before it in time
SalesInTimeOrder(rows) ==
    [k \in 1..Len(rows) |->
        LET i == CHOOSE x \in 1..Len(rows) :
                    Cardinality({j \in 1..Len(rows) : DateLt(rows[j].Date, rows[x].Date)}) = k - 1
        IN  rows[i].Units_Sold]

\* C16 (as claimed): for a series of a single record the trend analysis
\* returns slope = 0 and r_squared = 0 without raising, strength WEAK and
\* direction STABLE.
C16_SingleRecordZeroFit ==
    (RanOnSeries("trend") /\ Len(CalledSeries) = 1) =>
        /\ cout.kind = "report"
        /\ cout.slope = RInt(0)
        /\ cout.r_squared = RInt(0)
        /\ cout.strength = "WEAK"
        /\ cout.direction = "STABLE"

\* C17: with at least 12 records, recent_slope and recent_r_squared are the
\* fit over exactly the last 12 records in time order, re-indexed from 0; with
\* fewer, they are slope and r_squared themselves.
C17_RecentWindow ==
    RanOnSeries("trend") =>
        LET y == SalesInTimeOrder(CalledSeries)
            n == Len(y)
            last12 == [i \in 1..12 |-> y[n - 12 + i]]
        IN  IF n >= 12
            THEN /\ cout.recent_slope = FitSlope(last12)
                 /\ cout.recent_r_squared = FitScore(last12)
            ELSE /\ cout.recent_slope = cout.slope
                 /\ cout.recent_r_squared = cout.r_squared

\* more than 12 records, out of time order in the file, whose recent fit is
\* not the overall fit
C17_Witness ==
    /\ RanOnSeries("trend")
    /\ Len(CalledSeries) > 12
    /\ OutOfTimeOrder(CalledSeries)
    /\ cout.recent_slope # cout.slope
    /\ cout.recent_r_squared # cout.r_squared

\* C18: total_change_pct is (last - first) / first * 100 when the time-first
\* value is > 0 and 0 when it is 0, whatever the later values; first and last
\* are taken in time order.
C18_TotalChangePct ==
    RanOnSeries("trend") =>
        LET y == SalesInTimeOrder(CalledSeries)
            first == y[1]
            last == y[Len(y)]
        IN  /\ first > 0 =>
                  cout.total_change_pct = RMul(RDiv(RInt(last - first), RInt(first)), RInt(100))
            /\ first = 0 => cout.total_change_pct = RInt(0)

\* a series that starts at 0 and ends above it, last record first in the file
C18_Witness ==
    /\ RanOnSeries("trend")
    /\ Len(CalledSeries) >= 3
    /\ OutOfTimeOrder(CalledSeries)
    /\ SalesInTimeOrder(CalledSeries)[1] = 0
    /\ SalesInTimeOrder(CalledSeries)[Len(CalledSeries)] > 0
    /\ CalledSeries[1].Units_Sold > 0
    /\ cout.total_change_pct = RInt(0)

\* the files holding the rows of product p permuted, put before or after the
\* other rows
PermutedFiles(data, p) ==
    LET rows == FilterProduct(data, p)
        others == SelectSeq(data, LAMBDA row : row.Product # p)
    IN  UNION {{[i \in 1..Len(rows) |-> rows[f[i]]] \o others,
                others \o [i \in 1..Len(rows) |-> rows[f[i]]]} :
                   f \in Permutations(1..Len(rows))}

\* the files with two rows exchanged
SwappedFiles(data) ==
    {[k \in 1..Len(data) |-> IF k = i THEN data[j] ELSE IF k = j THEN data[i] ELSE data[k]] :
        i \in 1..Len(data), j \in 1..Len(data)}

\* C19: the trend analyzer sorts by timestamp before fitting: its result is
\* the same for every permutation of the input rows of a product whose
\* timestamps are distinct.
C19_PermutationInvariant ==
    RanOnSeries("trend") =>
        LET p == cin.args.product_name
            files == IF Len(CalledSeries) <= MaxSeries
                     THEN PermutedFiles(table, p)
                     ELSE SwappedFiles(table)
        IN  \A data \in files : TrendRun(data, p) = cout

\* a series out of time order in the file whose fit in file order is another
C19_Witness ==
    /\ RanOnSeries("trend")
    /\ Len(CalledSeries) >= 3
    /\ OutOfTimeOrder(CalledSeries)
    /\ cout.slope # FitSlope(SalesOf(CalledSeries))
    /\ cout.total_change_pct # RInt(0)

(***************************************************************************)
(* Properties of the trend labels, checked under SpecLabels.               *)
(***************************************************************************)
Labelled == cout # NoValue

\* C20: strength is STRONG when r_squared > 0.7, MODERATE when
\* 0.4 < r_squared <= 0.7, WEAK otherwise; direction is RISING when
\* slope > 0.5, DECLINING when slope < -0.5, STABLE otherwise: the boundary
\* values fall in the lower / STABLE class.
C20_StrengthAndDirection ==
    Labelled =>
        /\ cout.strength = "STRONG" <=> RLt(R(7, 10), cin.r_squared)
        /\ cout.strength = "MODERATE" <=>
              (RLt(R(4, 10), cin.r_squared) /\ RLe(cin.r_squared, R(7, 10)))
        /\ cout.strength = "WEAK" <=> RLe(cin.r_squared, R(4, 10))
        /\ cout.direction = "RISING" <=> RLt(R(1, 2), cin.slope)
        /\ cout.direction = "DECLINING" <=> RLt(cin.slope, R(-1, 2))
        /\ cout.direction = "STABLE" <=>
              (RLe(R(-1, 2), cin.slope) /\ RLe(cin.slope, R(1, 2)))

\* a fit on the boundaries r_squared = 0.7 and slope = 0.5
C20_Witness ==
    /\ Labelled
    /\ cin.r_squared = R(7, 10)
    /\ cin.slope = R(1, 2)
    /\ cout.strength = "MODERATE"
    /\ cout.direction = "STABLE"

(***************************************************************************)
(* More properties of the classifier, checked under SpecClassify.          *)
(***************************************************************************)
\* max(a, b) of two numbers
SpecMax(a, b) == IF RLt(a, b) THEN b ELSE a

SpecMin(a, b) == IF RLt(b, a) THEN b ELSE a

SpecConfidence(category, in) ==
    CASE category \in {"RISING_STAR", "FADING_OUT"} ->
            SpecMin(R(95, 100), RAdd(in.r_squared, RDiv(RAbs(in.slope), RInt(2))))
      [] category = "SEASONAL_HERO" -> SpecMin(R(9, 10), in.seasonality_score)
      [] category = "DECLINING_SEASONAL" ->
            SpecMin(R(85, 100), RAdd(in.seasonality_score, RDiv(RAbs(in.slope), RInt(3))))
      [] category = "RANDOM_ERRATIC" -> R(6, 10)
      [] category = "STABLE" -> R(5, 10)

\* C22: RISING_STAR and FADING_OUT have confidence min(0.95, r_squared +
\* |slope|/2), SEASONAL_HERO min(0.9, seasonality_score), DECLINING_SEASONAL
\* min(0.85, seasonality_score + |slope|/3), RANDOM_ERRATIC 0.6 and STABLE 0.5.
C22_CappedConfidences ==
    (Classified /\ cout.classification # "EVERGREEN") =>
        cout.confidence = SpecConfidence(cout.classification, cin)

\* slope 4.2 with r_squared 0.78: RISING_STAR with confidence 0.95
C22_Witness ==
    /\ Classified
    /\ cin.slope = R(42, 10)
    /\ cin.r_squared = R(78, 100)
    /\ cout.classification = "RISING_STAR"
    /\ cout.confidence = R(95, 100)

\* C25: DECLINING_SEASONAL is returned only for seasonal inputs with
\* slope <= -0.3 that rule 2 did not take; no input with -0.3 < slope < -0.2
\* is classified DECLINING_SEASONAL.
C25_DecliningSeasonalRange ==
    (Classified /\ cout.classification = "DECLINING_SEASONAL") =>
        /\ RGt(cin.seasonality_score, R(3, 10))
        /\ RLe(cin.slope, R(-3, 10))
        /\ RLe(R(-1, 2), cin.slope) \/ RLe(cin.r_squared, R(1, 2))
        /\ ~(RLt(R(-3, 10), cin.slope) /\ RLt(cin.slope, R(-2, 10)))

\* DECLINING_SEASONAL at the largest slope that gets it, -0.3
C25_Witness ==
    /\ Classified
    /\ cout.classification = "DECLINING_SEASONAL"
    /\ cin.slope = R(-3, 10)

\* C26: RISING_STAR implies direction RISING and strength STRONG or MODERATE,
\* FADING_OUT implies direction DECLINING and strength STRONG or MODERATE,
\* SEASONAL_HERO and EVERGREEN imply direction STABLE, the labels being those
\* of the same slope and r_squared.
C26_CategoryAgreesWithLabels ==
    Classified =>
        /\ cout.classification = "RISING_STAR" =>
              /\ Direction(cin.slope) = "RISING"
              /\ Strength(cin.r_squared) \in {"STRONG", "MODERATE"}
        /\ cout.classification = "FADING_OUT" =>
              /\ Direction(cin.slope) = "DECLINING"
              /\ Strength(cin.r_squared) \in {"STRONG", "MODERATE"}
        /\ cout.classification \in {"SEASONAL_HERO", "EVERGREEN"} =>
              Direction(cin.slope) = "STABLE"

\* a RISING_STAR whose trend is only MODERATE
C26_Witness ==
    /\ Classified
    /\ cout.classification = "RISING_STAR"
    /\ Direction(cin.slope) = "RISING"
    /\ Strength(cin.r_squared) = "MODERATE"

(***************************************************************************)
(* More properties of the tools, checked under SpecTools.                  *)
(***************************************************************************)
\* the values rise by the same step d from each period to the next
IsLine(y, d) == \A i \in 1..(Len(y) - 1) : y[i + 1] - y[i] = d

\* C23: for a series of length >= 2 whose values form a perfect line of step
\* d per period the trend analysis yields slope = d and r_squared = 1.0, hence
\* strength STRONG, and direction RISING when d > 0.5; for [10,20,30,40,50] it
\* yields slope 10, r_squared 1.0 and total_change_pct 400.0.
C23_PerfectLine ==
    (RanOnSeries("trend") /\ Len(CalledSeries) >= 2) =>
        LET y == SalesInTimeOrder(CalledSeries)
            d == y[2] - y[1]
        IN  /\ IsLine(y, d) =>
                  /\ cout.slope = RInt(d)
                  /\ cout.r_squared = RInt(1)
                  /\ cout.strength = "STRONG"
                  /\ d >= 1 => cout.direction = "RISING"
            /\ y = <<10, 20, 30, 40, 50>> =>
                  /\ cout.slope = RInt(10)
                  /\ cout.r_squared = RInt(1)
                  /\ cout.total_change_pct = RInt(400)

\* the example series, its rows out of time order in the file
C23_Witness ==
    /\ RanOnSeries("trend")
    /\ SalesInTimeOrder(CalledSeries) = <<10, 20, 30, 40, 50>>
    /\ OutOfTimeOrder(CalledSeries)
    /\ cout.slope = RInt(10)
    /\ cout.direction = "RISING"

\* C24: the classification step recomputes trend and seasonality itself; for
\* the same data file and product the slope, r_squared, seasonality_score and
\* is_seasonal it classifies on equal those reported by the trend tool and by
\* the seasonality tool.
C24_RecomputedEqualsReported ==
    RanOnSeries("classification") =>
        LET p == cin.args.product_name
            trend == TrendRun(table, p)
            seasonality == SeasonalityRun(table, p)
        IN  /\ cin.args = ToolArgs(p)
            /\ cout.kind = "report"
            /\ cout.slope = trend.slope
            /\ cout.r_squared = trend.r_squared
            /\ cout.seasonality_score = seasonality.seasonality_score
            /\ cout.is_seasonal = seasonality.is_seasonal

\* a seasonal series with a trend, out of time order in the file
C24_Witness ==
    /\ RanOnSeries("classification")
    /\ Len(CalledSeries) >= 3
    /\ OutOfTimeOrder(CalledSeries)
    /\ cout.slope # FitSlope(SalesOf(CalledSeries))
    /\ cout.is_seasonal

(***************************************************************************)
(* More properties of the pipeline, checked under Spec.                    *)
(***************************************************************************)
\* thread t's analyze_product returns in this step
Returns(t) == pc[t] = "kickoff" /\ pc'[t] = "return"

\* C27: analyze_product changes the stored results only on success: if the
\* crew execution raises it returns an error message and self.results is left
\* unchanged; if it succeeds exactly the entry self.results[product_name] is
\* set, and the entries of all other products are unchanged.
C27_ResultsChangeOnSuccessOnly ==
    [][/\ \A t \in Threads :
            Returns(t) =>
                IF ret'[t].kind = "crew_error"
                THEN results' = results
                ELSE /\ DOMAIN results' = DOMAIN results \cup {product_name[t]}
                     /\ results'[product_name[t]].analysis_result = ret'[t]
                     /\ \A q \in DOMAIN results \ {product_name[t]} : results'[q] = results[q]
       /\ results' # results => \E t \in Threads : Returns(t) /\ ret'[t].kind # "crew_error"]_vars

\* a product analysed twice, the second analysis failing: the first result
\* is still stored
C27_Witness ==
    /\ Len(outcomes[1]) = 2
    /\ product_list[1][1] = product_list[1][2]
    /\ outcomes[1][1].kind = "synthesis"
    /\ outcomes[1][2].kind = "crew_error"
    /\ product_list[1][1] \in DOMAIN results
    /\ results[product_list[1][1]].analysis_result = outcomes[1][1]

(***************************************************************************)
(* Properties of the dashboard session, checked under SpecDashboard.       *)
(***************************************************************************)
Started == session_state.analysis_started

Complete == session_state.analysis_complete

\* C28: analysis_complete implies analysis_started in every reachable state
\* of the dashboard session, whatever sequence of Deploy, run completion,
\* 'Analyze Another Product', 'Reset Demo', data load and product selection
\* led to it, and current_phase stays 0.
C28_CompleteImpliesStarted ==
    /\ Complete => Started
    /\ session_state.current_phase = 0

\* a completed analysis has been dismissed: both flags are false again
C28_Witness ==
    /\ trace.deployed_for # NoProduct
    /\ trace.reported = <<25, 50, 75, 100>>
    /\ ~Started
    /\ ~Complete
    /\ page.view = "main"

\* the run reports 25, 50, 75, 100 in this order before analysis_complete is
\* set, and the Deploy button on the page is disabled exactly while
\* analysis_started is true
RunInOrder ==
    /\ Len(trace.reported) <= 4
    /\ \A i \in 1..Len(trace.reported) : trace.reported[i] = 25 * i
    /\ Complete => trace.reported = <<25, 50, 75, 100>>
    /\ page.view = "main" => (page.deploy_button = "disabled" <=> Started)

\* C29 (as claimed): once Deploy is pressed the simulated run reports the four
\* phases in the order 25, 50, 75, 100 and then sets analysis_complete; a
\* started analysis always eventually completes, and the Deploy button stays
\* disabled until analysis_started is false again.
C29_StartedRunCompletes ==
    /\ []RunInOrder
    /\ (Started /\ ~Complete) ~> Complete

\* C29 (amended): the phases are reported in order before analysis_complete
\* is set and the Deploy button is disabled while analysis_started is true; a
\* started analysis eventually completes unless an interaction with the page
\* abandons its run.
C29_CompletesUnlessInterrupted ==
    /\ []RunInOrder
    /\ (Started /\ ~Complete) ~> (Complete \/ trace.interrupted)

\* a run that went through undisturbed
C29_Witness ==
    /\ Complete
    /\ ~trace.interrupted
    /\ trace.reported = <<25, 50, 75, 100>>
    /\ page.deploy_button = "disabled"
    /\ page.status = "complete"

\* another product is chosen in the selectbox in this step
Selects ==
    /\ widgets'.selected_product # widgets.selected_product
    /\ page'.view = "main"

\* C30: choosing another product leaves analysis_started and
\* analysis_complete unchanged; after a completed analysis the results panel
\* is shown under the newly selected product's name without a new Deploy.
C30_SelectionKeepsFlags ==
    [][Selects =>
          /\ session_state'.analysis_started = session_state.analysis_started
          /\ session_state'.analysis_complete = session_state.analysis_complete
          /\ Complete =>
                /\ page'.results_for = widgets'.selected_product
                /\ trace'.deployed_for = trace.deployed_for]_vars

\* results shown for a product other than the one selected at Deploy
C30_Witness ==
    /\ Complete
    /\ trace.deployed_for # NoProduct
    /\ page.results_for = widgets.selected_product
    /\ page.results_for # trace.deployed_for

====
